---- MODULE Spec2Model ----
(***************************************************************************)
(* SensorBoard Live: the ingest edge function (supabase/functions/ingest)  *)
(* running concurrently against the Entity Store (devices, sensors,        *)
(* readings with the UNIQUE(device_id, name) constraint and the last_seen  *)
(* trigger), plus the dashboard's explicit "Add Sensor" insert; the        *)
(* SimulatorProvider (contexts/SimulatorContext) with its interval timers  *)
(* and fire-and-forget submissions; and the DeviceCard live view with its  *)
(* realtime channel.                                                       *)
(*                                                                         *)
(* Every store call is one atomic step of the store.  The synchronous code *)
(* of the handler that runs between two awaits belongs to the step of the  *)
(* store call that precedes it.                                            *)
(***************************************************************************)
EXTENDS Integers, Sequences, FiniteSets, TLC

\* ---- bounds of the model ------------------------------------------------
NumReq == 2        \* ingest requests handled concurrently
MaxBatch == 2      \* entries of one readings array
MaxFaults == 1     \* store calls that fail (store unavailable) in one run
MaxUserAdds == 1   \* submissions of the Add Sensor form in one run
NumSimSensors == 2 \* sensors listed on the simulator page
MaxSimEvents == 5  \* simulator events in one run: startSimulator and stopSimulator
                   \* calls, interval callbacks fired, inserts answered
MaxCardMoves == 3  \* mounts, device-id changes and unmounts of the DeviceCard in one run

Requests == 1..NumReq

\* ---- JSON values ----------------------------------------------------------
Undefined == "undefined"     \* a property that is absent
JsonNull == "null"
NoDevice == "none"           \* maybeSingle() data: null
NoSensor == 0                \* maybeSingle() data: null (sensor ids are 1, 2, ...)

\* !x of JavaScript, for the strings the model uses
Falsy(x) == x \in {Undefined, JsonNull, ""}

\* ---- the devices table (rows exist before any request) --------------------
Devices ==
  { [id |-> "D1", user_id |-> "u1", api_key |-> "k1"],
    [id |-> "D2", user_id |-> "u2", api_key |-> "k2"] }
DeviceIds == { d.id : d \in Devices }

\* the signed-in dashboard user, and the devices row-level security shows them
SessionUser == "u1"
OwnDevices == { d.id : d \in { x \in Devices : x.user_id = SessionUser } }

\* ---- inputs -----------------------------------------------------------------
SensorNames == {"temp", "hum"}

Entry(j, n, v) == [json |-> j, sensor_name |-> n, value |-> v]
NullEntry == Entry("null", Undefined, Undefined)          \* readings: [null]
NumberEntry == Entry("number", Undefined, Undefined)      \* readings: [5]
Entries ==
  {NullEntry, NumberEntry}
    \cup { Entry("object", n, "21.5") : n \in SensorNames }
    \cup { Entry("object", "temp", JsonNull) }

Batches == UNION { [1..n -> Entries] : n \in 0..MaxBatch }

Req(m, b, k, rj, rs) ==
  [method |-> m, body |-> b, device_key |-> k, readings_json |-> rj, readings |-> rs]
NoRequest == Req("none", "none", Undefined, Undefined, <<>>)

\* the requests a client can send
HttpRequests ==
  { Req(m, "none", Undefined, Undefined, <<>>) : m \in {"OPTIONS", "GET"} }
    \cup { Req("POST", b, Undefined, Undefined, <<>>) : b \in {"invalid", "null"} }
    \cup { Req("POST", "object", k, rj, <<>>) :
             k \in {Undefined, "k1", "bad"}, rj \in {Undefined, "string"} }
    \cup { Req("POST", "object", Undefined, "array", <<>>) }
    \cup { Req("POST", "object", k, "array", rs) :
             k \in {"k1", "k2", "bad"}, rs \in Batches }

\* ---- the response -----------------------------------------------------------
Resp(s, h, d, n) == [status |-> s, headers |-> h, device_id |-> d, readings_inserted |-> n]
NoResponse == Resp(0, "none", NoDevice, 0)

VARIABLES
  pc,               \* where each handler invocation is
  request,          \* the request it was given
  device,           \* index.ts:47 device (its id)
  idx,              \* position of the for-of loop in readings
  sensor,           \* index.ts:69 sensor (its id)
  stamp,            \* index.ts:101 new Date().toISOString() of the pending insert
  insertedReadings, \* index.ts:60
  response,         \* the Response returned
  sensors,          \* table sensors
  readings,         \* table readings (id = position: GENERATED ALWAYS AS IDENTITY)
  lastSeen,         \* devices.last_seen
  clock,            \* the clock new Date() reads
  modalError,       \* AddSensorModal error state
  userAdds,         \* history: Add Sensor submissions so far
  faults,           \* history: store calls of each request that failed
  storeCalls,       \* history: store calls each request issued
  outcome,          \* history: what happened to each entry the loop reached
  creator,          \* history: who inserted each row of sensors (0: the user)
  writer,           \* history: who inserted each row of readings (0: the simulator)
  providerMounted,    \* SimulatorProvider is mounted
  simulators,         \* SimulatorContext: the state behind setSimulators
  renderedSimulators, \* SimulatorContext: `simulators` of the last render (what
                      \* startSimulator, stopSimulator, isRunning, getSimulator close over)
  timers,             \* armed window.setInterval timers
  nextIntervalId,     \* the id the next setInterval returns
  submissions,        \* sendReading calls: pending, ok or error
  simFaults,          \* history: simulator inserts that failed
  simEvents,          \* history: simulator events so far
  starts,             \* history: startSimulator calls that passed the guard, per sensor
  stops,              \* history: stopSimulator calls, per sensor
  ticks,              \* history: interval callbacks fired, per sensor
  cardMounted,        \* a DeviceCard is on screen
  cardDevice,         \* DeviceCard: device.id of the prop the subscription effect ran for
  channels,           \* realtime channels open on the supabase client
  nextChannelId,      \* the id of the next channel
  cardChannel,        \* DeviceCard: the channel the effect's cleanup closes over
  events,             \* change events on their way to the channels, oldest first
  cardSensors,        \* DeviceCard: `sensors`, sensor id -> id of latest_reading (0: none)
  localDevice,        \* DeviceCard: `localDevice`
  sensorIdsRef,       \* DeviceCard: sensorIdsRef.current
  sensorLoads,        \* DeviceCard: loadSensors calls in flight
  infoLoads,          \* DeviceCard: loadDeviceInfo calls in flight (the device each asks for)
  cardFaults,         \* history: queries of the card that failed
  cardMoves,          \* history: mounts, device-id changes and unmounts so far
  cardChanges,        \* history: device-id changes so far
  loadsDone,          \* history: loadSensors calls that returned
  finished            \* history: the loadSensors call that returned last

handlerVars == <<pc, request, device, idx, sensor, stamp, insertedReadings, response>>
storeVars == <<sensors, readings, lastSeen>>
historyVars == <<userAdds, faults, storeCalls, outcome, creator, writer>>
simVars == <<providerMounted, simulators, renderedSimulators, timers, nextIntervalId,
            submissions, simFaults, simEvents, starts, stops, ticks>>
cardState == <<cardMounted, cardDevice, channels, nextChannelId, cardChannel, cardSensors,
              localDevice, sensorIdsRef, sensorLoads, infoLoads, cardFaults, cardMoves,
              cardChanges, loadsDone, finished>>
cardVars == <<cardState, events>>
vars == <<handlerVars, storeVars, clock, modalError, historyVars, simVars, cardVars>>

\* ---- the store ----------------------------------------------------------------
\* a lookup that falls back to the first device when no api_key matches
DeviceByKeyAnyKey(key) ==
  LET hit == { d \in Devices : d.api_key = key }
  IN  IF hit = {} THEN "D1" ELSE (CHOOSE d \in hit : TRUE).id

\* .from('devices').select('id, user_id').eq('api_key', key).maybeSingle()
DeviceByKey(key) ==
  LET hit == { d \in Devices : d.api_key = key }
  IN  IF hit = {} THEN NoDevice ELSE (CHOOSE d \in hit : TRUE).id

\* a lookup that forgets .eq('device_id', device.id)
SensorByNameAnyDevice(rows, d, n) ==
  LET hit == { i \in DOMAIN rows : rows[i].name = n }
  IN  IF hit = {} THEN NoSensor ELSE rows[CHOOSE i \in hit : TRUE].id

\* .from('sensors').select('id').eq('device_id', d).eq('name', n).maybeSingle()
SensorByName(rows, d, n) ==
  LET hit == { i \in DOMAIN rows : rows[i].device_id = d /\ rows[i].name = n }
  IN  IF hit = {} THEN NoSensor ELSE rows[CHOOSE i \in hit : TRUE].id

\* a sensors table without the uniqueness constraint
UniqueOkNoConstraint(rows, d, n) == TRUE

\* UNIQUE(device_id, name)
UniqueOk(rows, d, n) ==
  \A i \in DOMAIN rows : ~(rows[i].device_id = d /\ rows[i].name = n)

SensorRow(id, d, n, t, u) == [id |-> id, device_id |-> d, name |-> n, type |-> t, unit |-> u]

\* INSERT INTO sensors: the new table
InsertSensor(rows, d, n, t, u) == Append(rows, SensorRow(Len(rows) + 1, d, n, t, u))

ReadingRow(id, s, v, t) == [id |-> id, sensor_id |-> s, value |-> v, timestamp |-> t]

\* an insert that overwrites the newest row instead of appending
InsertReadingOverwrite(rows, s, v, t) ==
  IF rows = <<>> THEN <<ReadingRow(1, s, v, t)>>
  ELSE [rows EXCEPT ![Len(rows)] = ReadingRow(Len(rows), s, v, t)]

\* INSERT INTO readings: the new table
InsertReading(rows, s, v, t) == Append(rows, ReadingRow(Len(rows) + 1, s, v, t))

\* SELECT device_id FROM sensors WHERE id = s
DeviceOfSensor(rows, s) == rows[CHOOSE i \in DOMAIN rows : rows[i].id = s].device_id

\* a trigger whose UPDATE has no WHERE clause
UpdateEveryDeviceLastSeen(ls, rows, s, t) == [d \in DOMAIN ls |-> t]

\* trigger_update_device_last_seen: AFTER INSERT ON readings FOR EACH ROW
UpdateDeviceLastSeen(ls, rows, s, t) ==
  [ls EXCEPT ![DeviceOfSensor(rows, s)] = t]

\* ---- realtime: what the store publishes to the open channels ------------------
Channel(id, d) == [id |-> id, device |-> d]
Event(c, t, sid) == [channel |-> c, table |-> t, sensor_id |-> sid]

\* DeviceCard.tsx:422-455 the events channel c gets when a reading of sensor sid of
\* device d is inserted: INSERT on readings (no filter; row-level security shows
\* the session its own devices' readings), then UPDATE on devices (the last_seen
\* trigger; filter id=eq.<device.id>)
ChangeEvents(c, d, sid) ==
  IF d \notin OwnDevices THEN <<>>
  ELSE <<Event(c.id, "readings", sid)>>
         \o (IF c.device = d THEN <<Event(c.id, "devices", NoSensor)>> ELSE <<>>)

RECURSIVE Notify(_, _, _, _)
Notify(evs, chs, d, sid) ==
  IF chs = {} THEN evs
  ELSE LET c == CHOOSE x \in chs : \A y \in chs : x.id <= y.id
       IN  Notify(evs \o ChangeEvents(c, d, sid), chs \ {c}, d, sid)

\* the events queue after a reading of sensor sid is inserted
Published(sid) == Notify(events, channels, DeviceOfSensor(sensors, sid), sid)

\* a store call may fail (store or network unavailable) and then changes nothing
RECURSIVE SumUpTo(_, _)
SumUpTo(f, n) == IF n = 0 THEN 0 ELSE f[n] + SumUpTo(f, n - 1)
TotalFaults == SumUpTo(faults, NumReq)
StoreResults == IF TotalFaults + cardFaults < MaxFaults THEN {"ok", "error"} ELSE {"ok"}

\* ---- the handler ----------------------------------------------------------------
\* index.ts:65 the entry is skipped
Skipped(e) == Falsy(e.sensor_name) \/ e.value \in {Undefined, JsonNull}

\* index.ts:63 destructuring null throws a TypeError
Throws(e) == e.json = "null"

\* the first entry at or after i that the loop does not skip (Len + 1: none)
RECURSIVE ScanFrom(_, _)
ScanFrom(b, i) ==
  IF i > Len(b) THEN i
  ELSE IF ~Throws(b[i]) /\ Skipped(b[i]) THEN ScanFrom(b, i + 1)
  ELSE i

CorsJson == "cors+json"

\* index.ts:113 the success response
Success(d, ins) == Resp(200, CorsJson, d, Len(ins))

\* index.ts:121 the catch block
InternalError == Resp(500, CorsJson, NoDevice, 0)

\* the loop of index.ts:62 resumes at entry i, with ins the inserted readings and
\* out the entries' outcomes so far, and runs until its next await or the return
Resume(r, i, d, ins, out) ==
  LET b == request[r].readings
      j == ScanFrom(b, i)
      out2 == out \o [k \in 1..(j - i) |-> "skipped"]
  IN  /\ insertedReadings' = [insertedReadings EXCEPT ![r] = ins]
      /\ idx' = [idx EXCEPT ![r] = j]
      /\ IF j > Len(b)
           THEN /\ pc' = [pc EXCEPT ![r] = "done"]
                /\ response' = [response EXCEPT ![r] = Success(d, ins)]
                /\ outcome' = [outcome EXCEPT ![r] = out2]
           ELSE IF Throws(b[j])
             THEN /\ pc' = [pc EXCEPT ![r] = "done"]
                  /\ response' = [response EXCEPT ![r] = InternalError]
                  /\ outcome' = [outcome EXCEPT ![r] = Append(out2, "threw")]
             ELSE /\ pc' = [pc EXCEPT ![r] = "sensor"]
                  /\ response' = response
                  /\ outcome' = [outcome EXCEPT ![r] = out2]

\* a handler that does not check that readings is an array
EarlyStatusNoArrayCheck(q) ==
  IF q.method = "OPTIONS" THEN 200
  ELSE IF q.method # "POST" THEN 405
  ELSE IF q.body \in {"invalid", "null"} THEN 500
  ELSE IF Falsy(q.device_key) THEN 400
  ELSE 0

\* a handler that lets every method but OPTIONS through to the payload
EarlyStatusNoMethodCheck(q) ==
  IF q.method = "OPTIONS" THEN 200
  ELSE IF q.body \in {"invalid", "null"} THEN 500
  ELSE IF Falsy(q.device_key) \/ Falsy(q.readings_json) \/ q.readings_json # "array" THEN 400
  ELSE 0

\* what the handler answers before it reads the store (0: it goes on)
EarlyStatus(q) ==
  IF q.method = "OPTIONS" THEN 200
  ELSE IF q.method # "POST" THEN 405
  ELSE IF q.body \in {"invalid", "null"} THEN 500
  ELSE IF Falsy(q.device_key) \/ Falsy(q.readings_json) \/ q.readings_json # "array" THEN 400
  ELSE 0

\* index.ts:19-45 method dispatch, req.json(), payload validation, for a request
\* drawn from Q
ReceiveFrom(r, Q) ==
  /\ pc[r] = "idle"
  /\ \E q \in Q :
       /\ request' = [request EXCEPT ![r] = q]
       /\ IF EarlyStatus(q) = 0
            THEN /\ pc' = [pc EXCEPT ![r] = "device"]
                 /\ response' = response
            ELSE /\ pc' = [pc EXCEPT ![r] = "done"]
                 /\ response' = [response EXCEPT ![r] =
                      IF q.method = "OPTIONS" THEN Resp(200, "cors", NoDevice, 0)
                      ELSE Resp(EarlyStatus(q), CorsJson, NoDevice, 0)]
  /\ UNCHANGED <<device, idx, sensor, stamp, insertedReadings>>
  /\ UNCHANGED <<storeVars, clock, modalError, historyVars>>
  /\ UNCHANGED <<simVars, cardVars>>

Receive(r) == ReceiveFrom(r, HttpRequests)

\* index.ts:47-58 the device lookup and what follows it up to the next await
LookupDevice(r) ==
  /\ pc[r] = "device"
  /\ \E res \in StoreResults :
       LET d == IF res = "error" THEN NoDevice ELSE DeviceByKey(request[r].device_key)
       IN  /\ faults' = IF res = "error" THEN [faults EXCEPT ![r] = @ + 1] ELSE faults
           /\ storeCalls' = [storeCalls EXCEPT ![r] = @ + 1]
           /\ device' = [device EXCEPT ![r] = d]
           /\ IF d = NoDevice
                THEN /\ pc' = [pc EXCEPT ![r] = "done"]
                     /\ response' = [response EXCEPT ![r] = Resp(401, CorsJson, NoDevice, 0)]
                     /\ UNCHANGED <<idx, insertedReadings, outcome>>
                ELSE Resume(r, 1, d, <<>>, <<>>)
  /\ UNCHANGED <<request, sensor, stamp>>
  /\ UNCHANGED <<storeVars, clock, modalError, userAdds, creator, writer>>
  /\ UNCHANGED <<simVars, cardVars>>

\* index.ts:96-101 the insert is built, new Date() is read
Stamp(r) ==
  /\ stamp' = [stamp EXCEPT ![r] = clock]
  /\ clock' = clock + 1

\* index.ts:69-76 the sensor lookup
LookupSensor(r) ==
  /\ pc[r] = "sensor"
  /\ \E res \in StoreResults :
       LET e == request[r].readings[idx[r]]
           s == IF res = "error" THEN NoSensor
                ELSE SensorByName(sensors, device[r], e.sensor_name)
       IN  /\ faults' = IF res = "error" THEN [faults EXCEPT ![r] = @ + 1] ELSE faults
           /\ storeCalls' = [storeCalls EXCEPT ![r] = @ + 1]
           /\ sensor' = [sensor EXCEPT ![r] = s]
           /\ IF s = NoSensor
                THEN /\ pc' = [pc EXCEPT ![r] = "create"]
                     /\ UNCHANGED <<stamp, clock>>
                ELSE /\ pc' = [pc EXCEPT ![r] = "reading"]
                     /\ Stamp(r)
  /\ UNCHANGED <<request, device, idx, insertedReadings, response>>
  /\ UNCHANGED <<storeVars, modalError, userAdds, outcome, creator, writer>>
  /\ UNCHANGED <<simVars, cardVars>>

\* index.ts:77-94 the sensor insert
CreateSensor(r) ==
  /\ pc[r] = "create"
  /\ \E res \in StoreResults :
       LET e == request[r].readings[idx[r]]
           ok == res = "ok" /\ UniqueOk(sensors, device[r], e.sensor_name)
       IN  /\ faults' = IF res = "error" THEN [faults EXCEPT ![r] = @ + 1] ELSE faults
           /\ storeCalls' = [storeCalls EXCEPT ![r] = @ + 1]
           /\ IF ok
                THEN /\ sensors' = InsertSensor(sensors, device[r], e.sensor_name,
                                                e.sensor_name, "")
                     /\ creator' = Append(creator, r)
                     /\ sensor' = [sensor EXCEPT ![r] = Len(sensors) + 1]
                     /\ pc' = [pc EXCEPT ![r] = "reading"]
                     /\ Stamp(r)
                     /\ UNCHANGED <<idx, insertedReadings, response, outcome>>
                ELSE /\ UNCHANGED <<sensors, creator, sensor, stamp, clock>>
                     /\ Resume(r, idx[r] + 1, device[r], insertedReadings[r],
                               Append(outcome[r],
                                      IF res = "ok" THEN "conflict" ELSE "sensorError"))
  /\ UNCHANGED <<request, device>>
  /\ UNCHANGED <<readings, lastSeen, modalError, userAdds, writer>>
  /\ UNCHANGED <<simVars, cardVars>>

\* a handler that puts the inserted row at the front of insertedReadings
PushedFirst(ins, res, row) == IF res = "ok" THEN <<row>> \o ins ELSE ins

\* a handler that counts the reading whether or not the insert failed
PushedAlways(ins, res, row) == Append(ins, row)

\* index.ts:106-110 insertedReadings after the insert answered res
Pushed(ins, res, row) == IF res = "ok" THEN Append(ins, row) ELSE ins

\* index.ts:96-110 the reading insert (and the store's last_seen trigger)
InsertReadingStep(r) ==
  /\ pc[r] = "reading"
  /\ \E res \in StoreResults :
       LET e == request[r].readings[idx[r]]
           row == ReadingRow(Len(readings) + 1, sensor[r], e.value, stamp[r])
       IN  /\ faults' = IF res = "error" THEN [faults EXCEPT ![r] = @ + 1] ELSE faults
           /\ storeCalls' = [storeCalls EXCEPT ![r] = @ + 1]
           /\ IF res = "ok"
                THEN /\ readings' = InsertReading(readings, sensor[r], e.value, stamp[r])
                     /\ lastSeen' = UpdateDeviceLastSeen(lastSeen, sensors, sensor[r], stamp[r])
                     /\ writer' = Append(writer, r)
                     /\ events' = Published(sensor[r])
                     /\ Resume(r, idx[r] + 1, device[r],
                               Pushed(insertedReadings[r], res, row),
                               Append(outcome[r], "inserted"))
                ELSE /\ UNCHANGED <<readings, lastSeen, writer, events>>
                     /\ Resume(r, idx[r] + 1, device[r],
                               Pushed(insertedReadings[r], res, row),
                               Append(outcome[r], "readingError"))
  /\ UNCHANGED <<request, device, sensor, stamp>>
  /\ UNCHANGED <<sensors, clock, modalError, userAdds, creator>>
  /\ UNCHANGED <<simVars, cardState>>

\* AddSensorModal.tsx:18-41 handleSubmit
UserTypes == {"temperature"}

AddSensorSubmit ==
  /\ userAdds < MaxUserAdds
  /\ userAdds' = userAdds + 1
  /\ \E d \in OwnDevices, n \in SensorNames, t \in UserTypes :
       IF UniqueOk(sensors, d, n)
         THEN /\ sensors' = InsertSensor(sensors, d, n, t, JsonNull)
              /\ creator' = Append(creator, 0)
              /\ modalError' = ""
         ELSE /\ UNCHANGED <<sensors, creator>>
              /\ modalError' = "duplicate key value violates unique constraint"
  /\ UNCHANGED <<handlerVars, readings, lastSeen, clock, faults, storeCalls, outcome, writer>>
  /\ UNCHANGED <<simVars, cardVars>>

\* ---- the simulator (contexts/SimulatorContext.tsx) ---------------------------------
\* the sensors the simulator page lists: rows the user added to their device D1,
\* one per type tag (the second has no profile of its own)
SeedTypes == <<"temperature", "widget", "light">>
SimSensorIds == 1..NumSimSensors
SeedSensors == [i \in SimSensorIds |-> SensorRow(i, "D1", SeedTypes[i], SeedTypes[i], "")]

NoPrevious == -1     \* previousValue: undefined
NoInterval == 0      \* intervalId: null (setInterval ids are 1, 2, ...)

\* generateValue: the bounds of the switch on type.toLowerCase(), in whole units
ProfileLo(type) ==
  CASE type = "temperature" -> 20
    [] type = "humidity" -> 40
    [] type = "pressure" -> 1000
    [] type = "light" -> 0
    [] type = "co2" -> 400
    [] type = "voltage" -> 3
    [] OTHER -> 0
ProfileHi(type) ==
  CASE type = "temperature" -> 30
    [] type = "humidity" -> 80
    [] type = "pressure" -> 1050
    [] type = "light" -> 1000
    [] type = "co2" -> 1000
    [] type = "voltage" -> 5
    [] OTHER -> 100

\* (Math.random() - 0.5) * 2 lies in [-1, 1): its two ends
Variations == {-1, 1}

\* previousValue ?? (the profile's baseline): Math.random() at its low end
BaseValues(type, previousValue) ==
  IF previousValue # NoPrevious THEN {previousValue} ELSE {ProfileLo(type)}

Max0(x) == IF x < 0 THEN 0 ELSE x

\* a generateValue without Math.max(0, ...)
GenerateValuesNoClamp(type, previousValue) ==
  { b + v : b \in BaseValues(type, previousValue), v \in Variations }

\* generateValue(type, previousValue): the values it can return
GenerateValues(type, previousValue) ==
  { Max0(b + v) : b \in BaseValues(type, previousValue), v \in Variations }

SimState(d, sid, n, t, u, iid, v) ==
  [deviceId |-> d, sensorId |-> sid, sensorName |-> n, sensorType |-> t,
   sensorUnit |-> u, isRunning |-> TRUE, intervalId |-> iid, currentValue |-> v]

\* new Map(): no entries
EmptyMap == [x \in {} |-> 0]

\* an updater that sets the entry on an empty Map instead of a copy of prev
MapSetOnEmpty(prev, sid, e) == [x \in {sid} |-> e]

\* updated.set(sensorId, e) on a copy of prev
MapSet(prev, sid, e) == [x \in (DOMAIN prev) \cup {sid} |-> IF x = sid THEN e ELSE prev[x]]

\* an updater that starts from an empty Map instead of a copy of prev
MapDeleteDropsAll(prev, sid) == EmptyMap

\* an updater that keeps the entry and flags it stopped
MapDeleteFlagsOnly(prev, sid) ==
  IF sid \in DOMAIN prev THEN [prev EXCEPT ![sid].isRunning = FALSE] ELSE prev

\* SimulatorContext.tsx:132-136 updated.delete(sensorId) on a copy of prev
MapDelete(prev, sid) == [x \in (DOMAIN prev) \ {sid} |-> prev[x]]

\* SimulatorContext.tsx:139-141
IsRunning(sid) == sid \in DOMAIN renderedSimulators /\ renderedSimulators[sid].isRunning

\* SimulatorContext.tsx:143-145 (the entry, or "undefined")
GetSimulator(sid) ==
  IF sid \in DOMAIN renderedSimulators THEN renderedSimulators[sid] ELSE Undefined

Submission(sid, v, t) == [sensor_id |-> sid, value |-> v, timestamp |-> t, status |-> "pending"]

\* a sendReading that waits for the sensor's earlier submission: it drops the
\* reading while one is pending
SendReadingUnlessPending(subs, sid, v, t) ==
  IF \E i \in DOMAIN subs : subs[i].sensor_id = sid /\ subs[i].status = "pending"
    THEN subs ELSE Append(subs, Submission(sid, v, t))

\* SimulatorContext.tsx:60-72 sendReading up to its await
SendReading(subs, sid, v, t) == Append(subs, Submission(sid, v, t))

\* a tick that generates and submits whether or not the entry exists
TickActsAlways(prev, sid) == TRUE

\* SimulatorContext.tsx:96-97 if (!current) return prev
TickActs(prev, sid) == sid \in DOMAIN prev

\* an interval updater that returns a copy of prev without the new value
TickUpdateKeepsValue(prev, sid, newValue) == prev

\* SimulatorContext.tsx:103-105 the map the interval's updater returns
TickUpdate(prev, sid, newValue) ==
  IF sid \in DOMAIN prev THEN [prev EXCEPT ![sid].currentValue = newValue] ELSE prev

\* a sendReading that stops the sensor's timers when the insert fails
TimersAfterAnswerStopsOnError(ts, sid, res) ==
  IF res = "error" THEN { t \in ts : t.sensorId # sid } ELSE ts

\* SimulatorContext.tsx:74-81 sendReading after the await only logs: the timers
\* after the insert of a reading of sensor sid was answered with res
TimersAfterAnswer(ts, sid, res) == ts

Timer(iid, sid, type) == [id |-> iid, sensorId |-> sid, sensorType |-> type]

\* the intervals stopSimulator clears: sim?.intervalId of the rendered map
StopClears(sid) ==
  IF sid \in DOMAIN renderedSimulators /\ renderedSimulators[sid].intervalId # NoInterval
    THEN {renderedSimulators[sid].intervalId} ELSE {}

\* SimulatorContext.tsx:28-34 the cleanup closes over `simulators` of the first
\* render, the empty Map: the intervals it clears
CleanupClears ==
  { EmptyMap[sid].intervalId : sid \in { x \in DOMAIN EmptyMap : EmptyMap[x].intervalId # NoInterval } }

SimStoreResults == IF simFaults < MaxFaults THEN {"ok", "error"} ELSE {"ok"}

simHistory == <<simFaults, simEvents, starts, stops, ticks>>
ingestVars == <<handlerVars, modalError, historyVars>>

\* SimulatorContext.tsx:84-123 startSimulator(deviceId, sensorId, name, type, unit),
\* called with a row of the simulator page's sensor list
StartSimulator(sid) ==
  /\ providerMounted
  /\ simEvents < MaxSimEvents
  /\ simEvents' = simEvents + 1
  /\ sid \in DOMAIN sensors
  /\ LET row == sensors[sid] IN
     IF IsRunning(sid)
       THEN UNCHANGED <<simulators, timers, nextIntervalId, submissions, clock, starts>>
       ELSE \E initialValue \in GenerateValues(row.type, NoPrevious) :
              /\ submissions' = SendReading(submissions, sid, initialValue, clock)
              /\ clock' = clock + 1
              /\ timers' = timers \cup {Timer(nextIntervalId, sid, row.type)}
              /\ nextIntervalId' = nextIntervalId + 1
              /\ simulators' = MapSet(simulators, sid,
                   SimState(row.device_id, sid, row.name, row.type, row.unit,
                            nextIntervalId, initialValue))
              /\ starts' = [starts EXCEPT ![sid] = @ + 1]
  /\ UNCHANGED <<providerMounted, renderedSimulators, simFaults, stops, ticks>>
  /\ UNCHANGED <<ingestVars, storeVars, cardVars>>

\* SimulatorContext.tsx:125-137 stopSimulator(sensorId)
StopSimulator(sid) ==
  /\ providerMounted
  /\ simEvents < MaxSimEvents
  /\ simEvents' = simEvents + 1
  /\ timers' = { t \in timers : t.id \notin StopClears(sid) }
  /\ simulators' = MapDelete(simulators, sid)
  /\ stops' = [stops EXCEPT ![sid] = @ + 1]
  /\ UNCHANGED <<providerMounted, renderedSimulators, nextIntervalId, submissions,
                 simFaults, starts, ticks>>
  /\ UNCHANGED <<ingestVars, storeVars, clock, cardVars>>

\* SimulatorContext.tsx:94-107 the interval callback of timer t fires.  The updater
\* runs on the state behind setSimulators; once the provider is unmounted React
\* may or may not run it.
Tick(t) ==
  /\ t \in timers
  /\ simEvents < MaxSimEvents
  /\ simEvents' = simEvents + 1
  /\ ticks' = [ticks EXCEPT ![t.sensorId] = @ + 1]
  /\ \E runs \in (IF providerMounted THEN {TRUE} ELSE BOOLEAN) :
       IF runs /\ TickActs(simulators, t.sensorId)
         THEN \E newValue \in GenerateValues(t.sensorType,
                  IF t.sensorId \in DOMAIN simulators
                    THEN simulators[t.sensorId].currentValue ELSE NoPrevious) :
                /\ submissions' = SendReading(submissions, t.sensorId, newValue, clock)
                /\ clock' = clock + 1
                /\ simulators' = TickUpdate(simulators, t.sensorId, newValue)
         ELSE UNCHANGED <<submissions, clock, simulators>>
  /\ UNCHANGED <<providerMounted, renderedSimulators, timers, nextIntervalId,
                 simFaults, starts, stops>>
  /\ UNCHANGED <<ingestVars, storeVars, cardVars>>

\* the provider re-renders: the context value closes over the current state
Render ==
  /\ providerMounted
  /\ renderedSimulators # simulators
  /\ renderedSimulators' = simulators
  /\ UNCHANGED <<providerMounted, simulators, timers, nextIntervalId, submissions, simHistory>>
  /\ UNCHANGED <<ingestVars, storeVars, clock, cardVars>>

\* SimulatorContext.tsx:28-34 the provider unmounts and its effect cleanup runs
Unmount ==
  /\ providerMounted
  /\ providerMounted' = FALSE
  /\ timers' = { t \in timers : t.id \notin CleanupClears }
  /\ UNCHANGED <<simulators, renderedSimulators, nextIntervalId, submissions, simHistory>>
  /\ UNCHANGED <<ingestVars, storeVars, clock, cardVars>>

\* SimulatorContext.tsx:65-81 the insert of submission i is answered (in any order)
CompleteSubmission(i) ==
  /\ i \in DOMAIN submissions
  /\ submissions[i].status = "pending"
  /\ simEvents < MaxSimEvents
  /\ simEvents' = simEvents + 1
  /\ \E res \in SimStoreResults :
       LET sub == submissions[i] IN
       /\ submissions' = [submissions EXCEPT ![i].status = res]
       /\ timers' = TimersAfterAnswer(timers, sub.sensor_id, res)
       /\ IF res = "ok"
            THEN /\ readings' = InsertReading(readings, sub.sensor_id, sub.value, sub.timestamp)
                 /\ lastSeen' = UpdateDeviceLastSeen(lastSeen, sensors, sub.sensor_id, sub.timestamp)
                 /\ writer' = Append(writer, 0)
                 /\ events' = Published(sub.sensor_id)
                 /\ simFaults' = simFaults
            ELSE /\ UNCHANGED <<readings, lastSeen, writer, events>>
                 /\ simFaults' = simFaults + 1
  /\ UNCHANGED <<providerMounted, simulators, renderedSimulators, nextIntervalId,
                 starts, stops, ticks>>
  /\ UNCHANGED <<handlerVars, modalError, userAdds, faults, storeCalls, outcome, creator>>
  /\ UNCHANGED <<sensors, clock, cardState>>

\* ---- the device card (components/DeviceCard.tsx) ------------------------------
\* what a device reports: a POST with its key and entries that carry name and value
ReportEntry(n) == Entry("object", n, "21.5")
DeviceReports ==
  { Req("POST", "object", "k1", "array", rs) :
      rs \in { b \in Batches : /\ b # <<>>
                                /\ \A i \in DOMAIN b : b[i] \in { ReportEntry(n) : n \in SensorNames } } }
Reporters == {1}

NoChannel == 0
NoReading == 0     \* latest_reading: undefined
NoSensors == [x \in {} |-> 0]

DeviceProp(d) == [id |-> d, last_seen |-> lastSeen[d]]
NoDeviceProp == [id |-> NoDevice, last_seen |-> 0]

\* a loadSensors call in flight: the device its closure asks for, how far it is,
\* the per-sensor queries not answered yet, the rows built so far, and the
\* sensors whose latest-reading query failed
Load(d, st, todo, got, failed) ==
  [device |-> d, stage |-> st, todo |-> todo, got |-> got, failed |-> failed]
NewLoad(d) == Load(d, "sensors", {}, NoSensors, {})
NoLoad == Load(NoDevice, "none", {}, NoSensors, {})

RemoveAt(seq, i) == [j \in 1..(Len(seq) - 1) |-> IF j < i THEN seq[j] ELSE seq[j + 1]]

\* .from('sensors').select('*').eq('device_id', d), under row-level security
SensorIdsOf(d) ==
  IF d \notin OwnDevices THEN {}
  ELSE { sensors[i].id : i \in { j \in DOMAIN sensors : sensors[j].device_id = d } }

\* .from('readings').eq('sensor_id', sid).order('timestamp', desc).limit(1).maybeSingle():
\* the ids it can return (0: no row)
LatestReadings(sid) ==
  LET rs == { i \in DOMAIN readings : readings[i].sensor_id = sid }
  IN  IF rs = {} THEN {NoReading}
      ELSE { readings[i].id : i \in { j \in rs :
               \A k \in rs : readings[k].timestamp <= readings[j].timestamp } }

\* a removeChannel that leaves the channel open
RemoveChannelKeepsOpen(chs, id) == chs

\* DeviceCard.tsx:460-463 supabase.removeChannel(channel)
RemoveChannel(chs, id) == { c \in chs : c.id # id }

\* the events of the channels that are still open
EventsOf(evs, chs) == SelectSeq(evs, LAMBDA e : \E c \in chs : c.id = e.channel)

CardStoreResults == IF TotalFaults + cardFaults < MaxFaults THEN {"ok", "error"} ELSE {"ok"}

cardHistory == <<cardFaults, cardMoves, cardChanges, loadsDone, finished>>
otherVars == <<ingestVars, storeVars, clock, simVars>>

\* DeviceCard.tsx:398-464 the card is rendered for device d and its effects run:
\* loadSensors(), loadDeviceInfo(), channel(...).subscribe()
MountCard(d) ==
  /\ ~cardMounted
  /\ cardMoves < MaxCardMoves
  /\ cardMoves' = cardMoves + 1
  /\ cardMounted' = TRUE
  /\ cardDevice' = d
  /\ cardSensors' = NoSensors
  /\ localDevice' = DeviceProp(d)
  /\ sensorIdsRef' = {}
  /\ sensorLoads' = <<NewLoad(d)>>
  /\ infoLoads' = <<d>>
  /\ channels' = channels \cup {Channel(nextChannelId, d)}
  /\ cardChannel' = nextChannelId
  /\ nextChannelId' = nextChannelId + 1
  /\ UNCHANGED <<events, cardFaults, cardChanges, loadsDone, finished>>
  /\ UNCHANGED otherVars

\* DeviceCard.tsx:413-464 the device prop changes to another device: the cleanup of
\* the effect runs, then the effect again; loads in flight keep their closures
ChangeDevice(d) ==
  /\ cardMounted
  /\ d # cardDevice
  /\ cardMoves < MaxCardMoves
  /\ cardMoves' = cardMoves + 1
  /\ cardChanges' = cardChanges + 1
  /\ cardDevice' = d
  /\ localDevice' = DeviceProp(d)
  /\ sensorLoads' = Append(sensorLoads, NewLoad(d))
  /\ infoLoads' = Append(infoLoads, d)
  /\ channels' = RemoveChannel(channels, cardChannel) \cup {Channel(nextChannelId, d)}
  /\ events' = EventsOf(events, channels')
  /\ cardChannel' = nextChannelId
  /\ nextChannelId' = nextChannelId + 1
  /\ UNCHANGED <<cardMounted, cardSensors, sensorIdsRef, cardFaults, loadsDone, finished>>
  /\ UNCHANGED otherVars

\* DeviceCard.tsx:460-463 the card unmounts: the cleanup runs, the component's state
\* is gone (what its loads in flight still set is seen by nobody)
UnmountCard ==
  /\ cardMounted
  /\ cardMoves < MaxCardMoves
  /\ cardMoves' = cardMoves + 1
  /\ cardMounted' = FALSE
  /\ cardDevice' = NoDevice
  /\ cardSensors' = NoSensors
  /\ localDevice' = NoDeviceProp
  /\ sensorIdsRef' = {}
  /\ sensorLoads' = <<>>
  /\ infoLoads' = <<>>
  /\ channels' = RemoveChannel(channels, cardChannel)
  /\ events' = EventsOf(events, channels')
  /\ cardChannel' = NoChannel
  /\ UNCHANGED <<nextChannelId, cardFaults, cardChanges, loadsDone, finished>>
  /\ UNCHANGED otherVars

\* a handler that reloads on every reading insert
CaresAlways(ref, sid) == TRUE

\* DeviceCard.tsx:448 sensorIdsRef.current.has(sensorId)
Cares(ref, sid) == sid \in ref

\* DeviceCard.tsx:432-454 the oldest event reaches its channel's handler
DeliverEvent ==
  /\ events # <<>>
  /\ events' = Tail(events)
  /\ LET e == Head(events)
         c == CHOOSE x \in channels : x.id = e.channel
     IN  IF e.table = "devices"
           THEN /\ infoLoads' = Append(infoLoads, c.device)
                /\ UNCHANGED sensorLoads
           ELSE /\ sensorLoads' = IF Cares(sensorIdsRef, e.sensor_id)
                                    THEN Append(sensorLoads, NewLoad(c.device))
                                    ELSE sensorLoads
                /\ UNCHANGED infoLoads
  /\ UNCHANGED <<cardMounted, cardDevice, channels, nextChannelId, cardChannel, cardSensors,
                 localDevice, sensorIdsRef, cardHistory>>
  /\ UNCHANGED otherVars

\* DeviceCard.tsx:466-483 loadDeviceInfo: the query of call i is answered
DeviceInfoAnswer(i) ==
  /\ i \in DOMAIN infoLoads
  /\ infoLoads' = RemoveAt(infoLoads, i)
  /\ \E res \in CardStoreResults :
       /\ cardFaults' = IF res = "error" THEN cardFaults + 1 ELSE cardFaults
       /\ localDevice' = IF res = "ok" /\ infoLoads[i] \in OwnDevices
                           THEN DeviceProp(infoLoads[i]) ELSE localDevice
  /\ UNCHANGED <<cardMounted, cardDevice, channels, nextChannelId, cardChannel, events,
                 cardSensors, sensorIdsRef, sensorLoads, cardMoves, cardChanges,
                 loadsDone, finished>>
  /\ UNCHANGED otherVars

\* DeviceCard.tsx:488-499 loadSensors: the sensors query of call i is answered; on
\* an error the call returns, else sensorIdsRef is rebuilt and the per-sensor
\* queries go out
SensorsAnswer(i) ==
  /\ i \in DOMAIN sensorLoads
  /\ sensorLoads[i].stage = "sensors"
  /\ \E res \in CardStoreResults :
       LET l == sensorLoads[i]
           ids == SensorIdsOf(l.device)
       IN  IF res = "error"
             THEN /\ cardFaults' = cardFaults + 1
                  /\ sensorLoads' = RemoveAt(sensorLoads, i)
                  /\ loadsDone' = loadsDone + 1
                  /\ finished' = l
                  /\ UNCHANGED sensorIdsRef
             ELSE /\ sensorIdsRef' = ids
                  /\ sensorLoads' = [sensorLoads EXCEPT ![i] =
                       Load(l.device, "readings", ids, NoSensors, {})]
                  /\ UNCHANGED <<cardFaults, loadsDone, finished>>
  /\ UNCHANGED <<cardMounted, cardDevice, channels, nextChannelId, cardChannel, events,
                 cardSensors, localDevice, infoLoads, cardMoves, cardChanges>>
  /\ UNCHANGED otherVars

\* DeviceCard.tsx:503-514 the latest-reading query of call i for sensor sid is
\* answered; its error is not looked at
ReadingAnswer(i, sid) ==
  /\ i \in DOMAIN sensorLoads
  /\ sensorLoads[i].stage = "readings"
  /\ sid \in sensorLoads[i].todo
  /\ \E res \in CardStoreResults :
     \E reading \in (IF res = "ok" THEN LatestReadings(sid) ELSE {NoReading}) :
       LET l == sensorLoads[i] IN
       /\ cardFaults' = IF res = "error" THEN cardFaults + 1 ELSE cardFaults
       /\ sensorLoads' = [sensorLoads EXCEPT ![i] =
            Load(l.device, "readings", l.todo \ {sid},
                 [x \in (DOMAIN l.got) \cup {sid} |-> IF x = sid THEN reading ELSE l.got[x]],
                 IF res = "error" THEN l.failed \cup {sid} ELSE l.failed)]
  /\ UNCHANGED <<cardMounted, cardDevice, channels, nextChannelId, cardChannel, events,
                 cardSensors, localDevice, sensorIdsRef, infoLoads, cardMoves, cardChanges,
                 loadsDone, finished>>
  /\ UNCHANGED otherVars

\* DeviceCard.tsx:516-530 Promise.all of call i resolved: setSensors(sensorsWithReadings)
FinishLoad(i) ==
  /\ i \in DOMAIN sensorLoads
  /\ sensorLoads[i].stage = "readings"
  /\ sensorLoads[i].todo = {}
  /\ cardSensors' = sensorLoads[i].got
  /\ sensorLoads' = RemoveAt(sensorLoads, i)
  /\ loadsDone' = loadsDone + 1
  /\ finished' = sensorLoads[i]
  /\ UNCHANGED <<cardMounted, cardDevice, channels, nextChannelId, cardChannel, events,
                 localDevice, sensorIdsRef, infoLoads, cardFaults, cardMoves, cardChanges>>
  /\ UNCHANGED otherVars

HandlerInit ==
  /\ pc = [r \in Requests |-> "idle"]
  /\ request = [r \in Requests |-> NoRequest]
  /\ device = [r \in Requests |-> NoDevice]
  /\ idx = [r \in Requests |-> 0]
  /\ sensor = [r \in Requests |-> NoSensor]
  /\ stamp = [r \in Requests |-> 0]
  /\ insertedReadings = [r \in Requests |-> <<>>]
  /\ response = [r \in Requests |-> NoResponse]
  /\ modalError = ""
  /\ faults = [r \in Requests |-> 0]
  /\ storeCalls = [r \in Requests |-> 0]
  /\ outcome = [r \in Requests |-> <<>>]

\* no sensor and no reading yet
EmptyStore ==
  /\ sensors = <<>>
  /\ readings = <<>>
  /\ lastSeen = [d \in DeviceIds |-> 0]
  /\ clock = 1
  /\ userAdds = 0
  /\ creator = <<>>
  /\ writer = <<>>

\* the user has added the sensors the simulator page lists
SeededStore ==
  /\ sensors = SeedSensors
  /\ readings = <<>>
  /\ lastSeen = [d \in DeviceIds |-> 0]
  /\ clock = 1
  /\ userAdds = NumSimSensors
  /\ creator = [i \in SimSensorIds |-> 0]
  /\ writer = <<>>

\* SimulatorContext.tsx:26 useState(new Map()), nothing started
SimInit ==
  /\ providerMounted = TRUE
  /\ simulators = EmptyMap
  /\ renderedSimulators = EmptyMap
  /\ timers = {}
  /\ nextIntervalId = 1
  /\ submissions = <<>>
  /\ simFaults = 0
  /\ simEvents = 0
  /\ starts = [sid \in SimSensorIds |-> 0]
  /\ stops = [sid \in SimSensorIds |-> 0]
  /\ ticks = [sid \in SimSensorIds |-> 0]

\* no DeviceCard on screen
CardIdle ==
  /\ cardMounted = FALSE
  /\ cardDevice = NoDevice
  /\ channels = {}
  /\ nextChannelId = 1
  /\ cardChannel = NoChannel
  /\ events = <<>>
  /\ cardSensors = NoSensors
  /\ localDevice = NoDeviceProp
  /\ sensorIdsRef = {}
  /\ sensorLoads = <<>>
  /\ infoLoads = <<>>
  /\ cardFaults = 0
  /\ cardMoves = 0
  /\ cardChanges = 0
  /\ loadsDone = 0
  /\ finished = NoLoad

Init == HandlerInit /\ EmptyStore /\ SimInit /\ CardIdle

InitSim == HandlerInit /\ SeededStore /\ SimInit /\ CardIdle

Next ==
  \/ \E r \in Requests : Receive(r)
  \/ \E r \in Requests : LookupDevice(r)
  \/ \E r \in Requests : LookupSensor(r)
  \/ \E r \in Requests : CreateSensor(r)
  \/ \E r \in Requests : InsertReadingStep(r)
  \/ AddSensorSubmit

Spec == Init /\ [][Next]_vars

NextSim ==
  \/ \E sid \in SimSensorIds : StartSimulator(sid)
  \/ \E sid \in SimSensorIds : StopSimulator(sid)
  \/ \E t \in timers : Tick(t)
  \/ Render
  \/ Unmount
  \/ \E i \in DOMAIN submissions : CompleteSubmission(i)

SpecSim == InitSim /\ [][NextSim]_vars

\* a card that stays on screen while a device reports
NextCard ==
  \/ \E d \in DeviceIds : MountCard(d)
  \/ DeliverEvent
  \/ \E i \in DOMAIN infoLoads : DeviceInfoAnswer(i)
  \/ \E i \in DOMAIN sensorLoads : SensorsAnswer(i)
  \/ \E i \in DOMAIN sensorLoads : \E sid \in sensorLoads[i].todo : ReadingAnswer(i, sid)
  \/ \E i \in DOMAIN sensorLoads : FinishLoad(i)
  \/ \E r \in Reporters : ReceiveFrom(r, DeviceReports)
  \/ \E r \in Reporters : LookupDevice(r)
  \/ \E r \in Reporters : LookupSensor(r)
  \/ \E r \in Reporters : CreateSensor(r)
  \/ \E r \in Reporters : InsertReadingStep(r)

SpecCard == Init /\ [][NextCard]_vars

\* a card that comes and goes while the store is left alone
NextCardLife ==
  \/ \E d \in DeviceIds : MountCard(d)
  \/ \E d \in DeviceIds : ChangeDevice(d)
  \/ UnmountCard
  \/ \E i \in DOMAIN infoLoads : DeviceInfoAnswer(i)
  \/ \E i \in DOMAIN sensorLoads : SensorsAnswer(i)
  \/ \E i \in DOMAIN sensorLoads : \E sid \in sensorLoads[i].todo : ReadingAnswer(i, sid)
  \/ \E i \in DOMAIN sensorLoads : FinishLoad(i)

SpecCardLife == InitSim /\ [][NextCardLife]_vars

\* ---- helpers of the properties --------------------------------------------------
Done(r) == pc[r] = "done"
Batch(r) == request[r].readings

\* the entry has both a sensor_name and a value
Present(e) == e.sensor_name \notin {Undefined, JsonNull} /\ e.value \notin {Undefined, JsonNull}
PresentCount(b) == Cardinality({ i \in DOMAIN b : Present(b[i]) })

\* a POST with a JSON object as its body
ObjectPost(q) == q.method = "POST" /\ q.body = "object"
WellFormed(q) == ObjectPost(q) /\ ~Falsy(q.device_key) /\ q.readings_json = "array"
KnownKey(q) == \E d \in Devices : d.api_key = q.device_key

\* rows request r wrote
ReadingsWrittenBy(r) == { i \in DOMAIN writer : writer[i] = r }
SensorsCreatedBy(r) == { i \in DOMAIN creator : creator[i] = r }
WroteNothing(r) == ReadingsWrittenBy(r) = {} /\ SensorsCreatedBy(r) = {}

SensorRowsOf(d, n) == { i \in DOMAIN sensors : sensors[i].device_id = d /\ sensors[i].name = n }

NoFaults == \A r \in Requests : faults[r] = 0

\* C1: with a known device key and a readings array, the 200 response's
\* readings_inserted equals the number of entries whose sensor_name and value are
\* both present, under any interleaving of concurrent ingest requests (stated for
\* runs where no store call fails and the user adds no sensor).
C1_InsertedEqualsPresentEntries ==
  (NoFaults /\ userAdds = 0) =>
    \A r \in Requests :
      (Done(r) /\ WellFormed(request[r]) /\ KnownKey(request[r])
         /\ response[r].status = 200)
        => response[r].readings_inserted = PresentCount(Batch(r))

\* C2 (as stated): every POST whose device_key matches no device is answered 401
\* and writes nothing.
C2_UnknownKeyAlways401 ==
  \A r \in Requests :
    (Done(r) /\ ObjectPost(request[r]) /\ ~Falsy(request[r].device_key)
       /\ ~KnownKey(request[r]))
      => (response[r].status = 401 /\ WroteNothing(r))

\* C2 (amended): every POST with a well-formed payload (device_key present,
\* readings an array) whose device_key matches no device is answered 401 and
\* writes no row to sensors or readings.
C2_UnknownKey401NoWrites ==
  \A r \in Requests :
    (WellFormed(request[r]) /\ ~KnownKey(request[r]))
      => /\ WroteNothing(r)
         /\ pc[r] \in {"device", "done"}
         /\ Done(r) => response[r].status = 401

C2_Witness ==
  \E r \in Requests :
    /\ Done(r) /\ WellFormed(request[r]) /\ ~KnownKey(request[r])
    /\ Len(Batch(r)) > 0 /\ Present(Batch(r)[1])
    /\ response[r].status = 401

\* C3: the sensors table never holds two rows with the same (device_id, name), and
\* once a request has tried to create a sensor and the store answered (created or
\* uniqueness violation), exactly one row exists for that (device, name).
C3_OneSensorPerDeviceAndName ==
  /\ \A i, j \in DOMAIN sensors :
       (sensors[i].device_id = sensors[j].device_id /\ sensors[i].name = sensors[j].name)
         => i = j
  /\ \A r \in Requests : \A i \in DOMAIN outcome[r] :
       outcome[r][i] \in {"inserted", "readingError", "conflict"}
         => Cardinality(SensorRowsOf(device[r], Batch(r)[i].sensor_name)) = 1

\* two requests reported the same unseen name for one device, both saw it absent
C3_Witness ==
  \E r1, r2 \in Requests :
    /\ r1 # r2 /\ Done(r1) /\ Done(r2) /\ device[r1] = device[r2]
    /\ \E i \in DOMAIN outcome[r1], j \in DOMAIN outcome[r2] :
         /\ Batch(r1)[i].sensor_name = Batch(r2)[j].sensor_name
         /\ outcome[r1][i] = "inserted" /\ outcome[r2][j] = "conflict"

\* C4: an entry whose sensor insert hits the uniqueness violation (a concurrent
\* request created the sensor first) still gets its reading inserted; the violation
\* never drops the entry.
C4_ConflictStillInsertsReading ==
  (NoFaults /\ userAdds = 0) =>
    \A r \in Requests : \A i \in DOMAIN outcome[r] : outcome[r][i] # "conflict"

\* C5: the reading rows of a sensor are exactly the readings the ingest calls
\* accepted for it (every accepted row is still in the table as it was returned),
\* and no step changes or deletes an existing row of readings.
AcceptedFor(s) ==
  { <<r, k>> \in Requests \X (1..(NumReq * MaxBatch)) :
      k \in DOMAIN insertedReadings[r] /\ insertedReadings[r][k].sensor_id = s }
RowsFor(s) == { i \in DOMAIN readings : readings[i].sensor_id = s }
C5_Counts ==
  /\ \A i \in DOMAIN sensors :
       Cardinality(RowsFor(sensors[i].id)) = Cardinality(AcceptedFor(sensors[i].id))
  /\ \A r \in Requests : \A k \in DOMAIN insertedReadings[r] :
       LET row == insertedReadings[r][k]
       IN  row.id \in DOMAIN readings /\ readings[row.id] = row
C5_Prefix ==
  /\ Len(readings') >= Len(readings)
  /\ \A i \in DOMAIN readings : readings'[i] = readings[i]
C5_AppendOnly == []C5_Counts /\ [][C5_Prefix]_vars

\* two calls each had a reading accepted for the same sensor
C5_Witness ==
  \E r1, r2 \in Requests :
    /\ r1 # r2 /\ Done(r1) /\ Done(r2)
    /\ Len(insertedReadings[r1]) > 0 /\ Len(insertedReadings[r2]) > 0
    /\ insertedReadings[r1][1].sensor_id = insertedReadings[r2][1].sensor_id

\* C6: a POST whose payload lacks device_key, lacks readings, or whose readings is
\* not an array is answered 400 at once, without any store call.
Malformed(q) ==
  ObjectPost(q) /\ (Falsy(q.device_key) \/ q.readings_json # "array")
C7_BadEntryNeverAbortsBatch ==
  \A r \in Requests :
    (Done(r) /\ device[r] # NoDevice)
      => \A i \in DOMAIN Batch(r) :
           Present(Batch(r)[i])
             => /\ response[r].status = 200
                /\ i \in DOMAIN outcome[r]
                /\ outcome[r][i] \in {"inserted", "readingError", "sensorError", "conflict"}

\* C8: a 200 answer to a POST names the device the key belongs to, and its
\* readings_inserted is the number of reading rows this request added.
C8_CountIsRowsAdded ==
  \A r \in Requests :
    (Done(r) /\ request[r].method = "POST" /\ response[r].status = 200)
      => /\ response[r].device_id # NoDevice
         /\ \E d \in Devices :
              d.api_key = request[r].device_key /\ d.id = response[r].device_id
         /\ response[r].readings_inserted = Cardinality(ReadingsWrittenBy(r))

\* partial success: two present entries, one inserted, one failed
C8_Witness ==
  \E r \in Requests :
    /\ Done(r) /\ response[r].status = 200
    /\ PresentCount(Batch(r)) = 2
    /\ response[r].readings_inserted = 1

\* C9: a request one of whose store calls failed is answered 500 (never 401,
\* never 200).
C9_StoreFailureIs500 ==
  \A r \in Requests : (Done(r) /\ faults[r] > 0) => response[r].status = 500

\* C10: OPTIONS is answered 200 with the CORS headers, any method other than POST
\* and OPTIONS is answered 405, and neither touches the store.
C10_MethodDispatch ==
  \A r \in Requests :
    LET q == request[r] IN
    /\ q.method = "OPTIONS"
         => /\ Done(r) /\ response[r].status = 200 /\ response[r].headers = "cors"
            /\ storeCalls[r] = 0 /\ WroteNothing(r)
    /\ q.method \notin {"POST", "OPTIONS", "none"}
         => /\ Done(r) /\ response[r].status = 405 /\ response[r].headers = CorsJson
            /\ storeCalls[r] = 0 /\ WroteNothing(r)

\* one request was a preflight, another used a method that is not allowed
C10_Witness ==
  \E r1, r2 \in Requests :
    /\ request[r1].method = "OPTIONS" /\ request[r2].method = "GET"
    /\ Done(r1) /\ Done(r2)

\* ---- helpers of the simulator's properties ------------------------------------
TimersOf(sid) == { t \in timers : t.sensorId = sid }
Sent(sid) == Cardinality({ i \in DOMAIN submissions : submissions[i].sensor_id = sid })
StartStep(sid) == starts'[sid] = starts[sid] + 1
StopStep(sid) == stops'[sid] = stops[sid] + 1
TickStep(sid) == ticks'[sid] = ticks[sid] + 1
HasEntry(sid) == sid \in DOMAIN simulators

\* C11: in every reachable state at most one recurring timer is armed per sensor
\* id, also when startSimulator is called twice for a sensor before the provider
\* re-renders.
C11_AtMostOneTimerPerSensor ==
  \A sid \in SimSensorIds : Cardinality(TimersOf(sid)) <= 1

\* C12: stopSimulator for a sensor id with no entry in the map leaves the map as it
\* is, sends no reading and cancels no timer of another sensor.
C12_StopOfAbsentIsNoOp ==
  [][\A sid \in SimSensorIds :
       (StopStep(sid) /\ ~HasEntry(sid))
         => /\ simulators' = simulators
            /\ submissions' = submissions
            /\ \A t \in timers : t.sensorId # sid => t \in timers']_vars

\* a sensor that was never started was stopped while another one is running
C12_Witness ==
  \E a, b \in SimSensorIds :
    /\ a # b
    /\ stops[a] > 0 /\ starts[a] = 0
    /\ HasEntry(b) /\ TimersOf(b) # {}

\* C13: stopSimulator(sensorId) removes the sensor's entry from the map and changes
\* no other entry; the entry comes back only by a startSimulator for that sensor;
\* and a render that publishes a map without the entry makes isRunning(sensorId)
\* false and getSimulator(sensorId) undefined.
C13_Removed ==
  \A sid \in SimSensorIds :
    /\ StopStep(sid)
         => /\ sid \notin DOMAIN simulators'
            /\ \A o \in SimSensorIds \ {sid} :
                 /\ (o \in DOMAIN simulators') = (o \in DOMAIN simulators)
                 /\ o \in DOMAIN simulators => simulators'[o] = simulators[o]
    /\ (~HasEntry(sid) /\ sid \in DOMAIN simulators') => StartStep(sid)
    /\ (renderedSimulators' # renderedSimulators /\ sid \notin DOMAIN simulators')
         => /\ ~IsRunning(sid)'
            /\ GetSimulator(sid)' = Undefined

C13_StopRemovesEntry == [][C13_Removed]_vars

\* a running sensor was stopped and the map without it was published, while the
\* other sensor is still in it
C13_Witness ==
  \E a, b \in SimSensorIds :
    /\ a # b
    /\ starts[a] > 0 /\ stops[a] > 0
    /\ ~HasEntry(a) /\ a \notin DOMAIN renderedSimulators
    /\ HasEntry(b) /\ b \in DOMAIN renderedSimulators

\* C14: when stopSimulator(sensorId) returns, no recurring timer of that sensor is
\* armed, whether or not the provider re-rendered since the start.
C14_StopLeavesNoTimer ==
  [][\A sid \in SimSensorIds : StopStep(sid) => TimersOf(sid)' = {}]_vars

\* C15: once the SimulatorProvider is unmounted, no timer is armed.
C15_TeardownCancelsTimers ==
  ~providerMounted => timers = {}

\* C16: for a sensor started once and not stopped, k ticks after the start exactly
\* k + 1 readings have been submitted for it: startSimulator submits one reading
\* (before any tick of its timer), and every tick submits one.
C16_Count ==
  \A sid \in SimSensorIds :
    (providerMounted /\ starts[sid] = 1 /\ stops[sid] = 0) => Sent(sid) = ticks[sid] + 1

C16_Steps ==
  \A sid \in SimSensorIds :
    /\ StartStep(sid) => Sent(sid)' = Sent(sid) + 1
    /\ (StartStep(sid) /\ starts[sid] = 0) => ticks[sid] = 0
    /\ (TickStep(sid) /\ providerMounted /\ HasEntry(sid)) => Sent(sid)' = Sent(sid) + 1

C16_OnePerTickPlusInitial == []C16_Count /\ [][C16_Steps]_vars

\* a sensor started once and never stopped has ticked three times: four readings
C16_Witness ==
  \E sid \in SimSensorIds :
    /\ providerMounted /\ starts[sid] = 1 /\ stops[sid] = 0
    /\ ticks[sid] = 3 /\ Sent(sid) = 4

\* C20: a tick for a sensor whose entry is absent from the map leaves the map as it
\* is (the entry is not created again) and submits no reading.
C20_TickOfAbsentIsNoOp ==
  [][\A sid \in SimSensorIds :
       (TickStep(sid) /\ ~HasEntry(sid))
         => /\ simulators' = simulators
            /\ submissions' = submissions]_vars

\* with the provider mounted, a timer of a sensor ticked after the entry was
\* removed: fewer readings than starts and ticks together
C20_Witness ==
  \E sid \in SimSensorIds :
    /\ providerMounted
    /\ ticks[sid] > 0 /\ stops[sid] > 0
    /\ ~HasEntry(sid)
    /\ Sent(sid) < starts[sid] + ticks[sid]

\* ---- helpers of the card's properties -----------------------------------------
\* nothing is on its way to the card and no device is in the middle of a report
CardQuiet ==
  /\ events = <<>> /\ sensorLoads = <<>> /\ infoLoads = <<>>
  /\ \A r \in Reporters : pc[r] = "done"

Displayed(sid) == sid \in DOMAIN cardSensors
LoadReturned == loadsDone' = loadsDone + 1

\* C17: with a card mounted and subscribed for a device, every sensor the ingest
\* endpoint created for that device is in the card's sensor list once nothing is
\* left in flight (no event, no load, no request), no query having failed.
C17_ImplicitSensorAppears ==
  (cardMounted /\ cardDevice \in OwnDevices /\ CardQuiet /\ NoFaults /\ cardFaults = 0)
    => \A i \in DOMAIN sensors :
         (sensors[i].device_id = cardDevice /\ creator[i] # 0) => Displayed(sensors[i].id)

\* C18: the open channels are exactly the channel of the mounted card: one while a
\* card is mounted (the one its latest effect run created, for its current
\* device id), none otherwise.
C18_OneChannelPerMountedCard ==
  /\ Cardinality(channels) = (IF cardMounted THEN 1 ELSE 0)
  /\ cardMounted => channels = {Channel(cardChannel, cardDevice)}

\* the card was mounted, got another device id and was unmounted
C18_Witness ==
  /\ cardChanges > 0
  /\ cardMoves >= 3
  /\ ~cardMounted
  /\ nextChannelId > 2

\* C19: a query of the card that fails changes nothing on display, and a
\* loadSensors call one of whose latest-reading queries failed does not replace the
\* reading displayed for that sensor.
C19_Kept ==
  /\ cardFaults' > cardFaults => (cardSensors' = cardSensors /\ localDevice' = localDevice)
  /\ \A sid \in DOMAIN cardSensors :
       (LoadReturned /\ sid \in finished'.failed /\ cardSensors[sid] # NoReading)
         => (sid \in DOMAIN cardSensors' /\ cardSensors'[sid] = cardSensors[sid])

C19_FailureKeepsDisplay == [][C19_Kept]_vars

\* ---- helpers of the simulator's further properties ---------------------------
SameEntry(sid) ==
  /\ (sid \in DOMAIN simulators') = (sid \in DOMAIN simulators)
  /\ (sid \in DOMAIN simulators /\ sid \in DOMAIN simulators')
       => simulators'[sid] = simulators[sid]
LastSubmission == submissions[Len(submissions)]
SubmittedOne == Len(submissions') = Len(submissions) + 1
LiveTick(sid) == TickStep(sid) /\ providerMounted /\ HasEntry(sid)

\* C21: a start, a stop or a tick changes only the entry of its own sensor id, so
\* no step loses what another sensor's step did to the map: the entry of a sensor
\* changes only in a start, stop or tick of that sensor; a start leaves the sensor
\* with an entry, a stop without one, and a tick of a running sensor with its
\* currentValue set to the value the tick submitted.
C21_Own ==
  \A sid \in SimSensorIds :
    /\ ~SameEntry(sid) => (StartStep(sid) \/ StopStep(sid) \/ TickStep(sid))
    /\ StartStep(sid) => sid \in DOMAIN simulators'
    /\ StopStep(sid) => sid \notin DOMAIN simulators'
    /\ LiveTick(sid)
         => /\ SubmittedOne
            /\ sid \in DOMAIN simulators'
            /\ simulators'[sid].currentValue = LastSubmission'.value

C21_NoLostUpdate == [][C21_Own]_vars

\* sensor b ticked and is still in the map with the value of its latest reading,
\* while sensor a was started and stopped
C21_Witness ==
  \E a, b \in SimSensorIds :
    /\ a # b /\ providerMounted
    /\ starts[a] > 0 /\ stops[a] > 0 /\ ~HasEntry(a)
    /\ starts[b] = 1 /\ ticks[b] > 0 /\ HasEntry(b)
    /\ \E i \in DOMAIN submissions :
         /\ submissions[i].sensor_id = b
         /\ submissions[i].value = simulators[b].currentValue
         /\ \A j \in DOMAIN submissions : submissions[j].sensor_id = b => j <= i

\* C22: a tick of a running sensor submits one new reading whose value is
\* generated from the currentValue the map holds, and stores that value, whatever
\* the state of the earlier submissions (pending or answered, in any order); and
\* the store may answer any pending submission, not only the oldest.
C22_Tick ==
  \A sid \in SimSensorIds :
    LiveTick(sid)
      => /\ SubmittedOne
         /\ LastSubmission'.sensor_id = sid
         /\ LastSubmission'.status = "pending"
         /\ LastSubmission'.value \in
              GenerateValues(simulators[sid].sensorType, simulators[sid].currentValue)
         /\ simulators'[sid].currentValue = LastSubmission'.value
         /\ \A i \in DOMAIN submissions : submissions'[i] = submissions[i]

C22_TickNeverWaits == [][C22_Tick]_vars

\* a sensor ticked while its initial submission was still pending, and the
\* tick's submission was answered before the initial one
C22_Witness ==
  \E sid \in SimSensorIds :
    \E i, j \in DOMAIN submissions :
      /\ i < j
      /\ submissions[i].sensor_id = sid /\ submissions[j].sensor_id = sid
      /\ submissions[i].status = "pending" /\ submissions[j].status = "ok"
      /\ starts[sid] = 1 /\ ticks[sid] > 0 /\ providerMounted

\* C23: an answer to a submission, failed or not, changes neither the map nor the
\* armed timers.
C23_Answered ==
  (\E i \in DOMAIN submissions : submissions'[i].status # submissions[i].status)
    => /\ simulators' = simulators
       /\ timers' = timers
       /\ renderedSimulators' = renderedSimulators

C23_FailureChangesNothing == [][C23_Answered]_vars

\* a submission of a sensor failed, and the sensor ticked again after it: its entry
\* and its timer are there and a later submission exists
C23_Witness ==
  \E sid \in SimSensorIds :
    \E i, j \in DOMAIN submissions :
      /\ i < j
      /\ submissions[i].sensor_id = sid /\ submissions[j].sensor_id = sid
      /\ submissions[i].status = "error"
      /\ HasEntry(sid) /\ TimersOf(sid) # {} /\ ticks[sid] > 0

\* C27: every submitted value is non-negative, and the value a tick stores differs
\* from the currentValue it replaces by at most 1.
C27_NonNegative ==
  \A i \in DOMAIN submissions : submissions[i].value >= 0

C27_Step ==
  \A sid \in SimSensorIds :
    LiveTick(sid)
      => /\ simulators'[sid].currentValue - simulators[sid].currentValue \in -1..1
         /\ simulators'[sid].currentValue >= 0

C27_BoundedNonNegative == []C27_NonNegative /\ [][C27_Step]_vars

\* a sensor of the default profile, whose base is 0, ticked at 0 and was clamped
C27_Witness ==
  \E sid \in SimSensorIds :
    /\ sensors[sid].type = "widget"
    /\ ticks[sid] > 1 /\ HasEntry(sid)
    /\ simulators[sid].currentValue = 0
    /\ Sent(sid) = 3
    /\ \A i \in DOMAIN submissions : submissions[i].sensor_id = sid => submissions[i].value = 0

\* ---- helpers of the card's further properties ---------------------------------
ReadingDelivered ==
  /\ events # <<>> /\ Len(events') < Len(events)
  /\ Head(events).table = "readings"

\* C24: a reading-insert event delivered to the card starts one loadSensors call
\* and changes nothing else of the card if the row's sensor_id is in sensorIdsRef
\* at that moment, and otherwise changes nothing of the card and starts no query.
C24_Delivery ==
  ReadingDelivered
    => IF Head(events).sensor_id \in sensorIdsRef
         THEN /\ sensorLoads' = Append(sensorLoads, NewLoad(cardDevice))
              /\ UNCHANGED <<cardSensors, sensorIdsRef, localDevice, infoLoads, channels>>
         ELSE UNCHANGED cardState

C24_ReloadIffCached == [][C24_Delivery]_vars

\* the card took the insert event of a sensor it knows (a second loadSensors call
\* was made) and the one of a sensor of its device that it does not know (no event
\* is left, and the sensor is still unknown)
C24_Witness ==
  \E i, j \in DOMAIN readings :
    /\ i < j
    /\ readings[i].sensor_id \in sensorIdsRef
    /\ readings[j].sensor_id \notin sensorIdsRef
    /\ DeviceOfSensor(sensors, readings[j].sensor_id) = cardDevice
    /\ cardMounted /\ events = <<>>
    /\ loadsDone + Len(sensorLoads) >= 2

\* C25: with a card mounted and subscribed and nothing left in flight (no event,
\* no load, no request), no query having failed, every sensor on display shows
\* the latest reading the store holds for it.
C25_DisplaysLatest ==
  (cardMounted /\ CardQuiet /\ NoFaults /\ cardFaults = 0)
    => \A sid \in DOMAIN cardSensors : cardSensors[sid] \in LatestReadings(sid)

\* ---- helpers of the store's further properties --------------------------------
ReadingInserted == Len(readings') = Len(readings) + 1
KeyDevice(r) == DeviceByKey(request[r].device_key)
ReadingDevice(j) == DeviceOfSensor(sensors, readings[j].sensor_id)

\* C26: last_seen changes only in a step that inserts a reading, and right after
\* the insert the last_seen of the device that owns the reading's sensor is the
\* reading's timestamp while that of every other device is as before.
C26_Step ==
  /\ lastSeen' # lastSeen => ReadingInserted
  /\ ReadingInserted
       => LET row == readings'[Len(readings')]
              d == DeviceOfSensor(sensors', row.sensor_id)
          IN  /\ lastSeen'[d] = row.timestamp
              /\ \A o \in DeviceIds \ {d} : lastSeen'[o] = lastSeen[o]

C26_LastSeenOnlyByTrigger == [][C26_Step]_vars

\* both devices reported: each has the last_seen of its own latest insert
C26_Witness ==
  /\ lastSeen["D1"] > 0 /\ lastSeen["D2"] > 0
  /\ lastSeen["D1"] # lastSeen["D2"]

\* C28: the last_seen of a device never decreases.
C28_LastSeenNeverDecreases ==
  [][\A d \in DeviceIds : lastSeen'[d] >= lastSeen[d]]_vars

\* C29: every sensor row an ingest request created and every reading row it wrote
\* belongs to the device its device_key resolves to.
C29_KeyIsolation ==
  \A r \in Requests :
    /\ \A i \in SensorsCreatedBy(r) : sensors[i].device_id = KeyDevice(r)
    /\ \A j \in ReadingsWrittenBy(r) : ReadingDevice(j) = KeyDevice(r)

\* two requests with the keys of two devices reported the same sensor name: each
\* created its own sensor and wrote its reading under its own device
C29_Witness ==
  \E r1, r2 \in Requests :
    /\ KeyDevice(r1) = "D1" /\ KeyDevice(r2) = "D2"
    /\ \E i \in SensorsCreatedBy(r1), j \in SensorsCreatedBy(r2) :
         sensors[i].name = sensors[j].name
    /\ ReadingsWrittenBy(r1) # {} /\ ReadingsWrittenBy(r2) # {}

\* C30: a request works on one entry at a time, in batch order: while it is at
\* entry idx every earlier entry is settled; the rows it wrote are the rows of
\* insertedReadings, in the order of the entries they come from and with
\* increasing ids; and, its store calls succeeding, an entry whose name an
\* earlier entry of the batch already resolved finds that sensor (no second
\* insert is tried).
InsertedEntries(r) == { k \in DOMAIN outcome[r] : outcome[r][k] = "inserted" }
NthInserted(r, n) ==
  CHOOSE k \in InsertedEntries(r) : Cardinality({ x \in InsertedEntries(r) : x <= k }) = n
Resolved == {"inserted", "readingError", "conflict"}

C30_Sequential ==
  \A r \in Requests :
    LET ins == insertedReadings[r] IN
    /\ pc[r] \in {"sensor", "create", "reading"} => Len(outcome[r]) = idx[r] - 1
    /\ { ins[n].id : n \in DOMAIN ins } = ReadingsWrittenBy(r)
    /\ Len(ins) = Cardinality(InsertedEntries(r))
    /\ \A m, n \in DOMAIN ins : m < n => ins[m].id < ins[n].id
    /\ \A n \in DOMAIN ins :
         sensors[ins[n].sensor_id].name = Batch(r)[NthInserted(r, n)].sensor_name
    /\ faults[r] = 0
         => \A i, j \in DOMAIN outcome[r] :
              (i < j /\ outcome[r][i] \in Resolved /\ outcome[r][j] # "skipped"
                 /\ Batch(r)[i].sensor_name = Batch(r)[j].sensor_name)
                => outcome[r][j] \in {"inserted", "readingError"}
    /\ \A i, j \in SensorsCreatedBy(r) : sensors[i].name = sensors[j].name => i = j

\* a batch named the same new sensor twice: the request created it once and wrote
\* both readings
C30_Witness ==
  \E r \in Requests :
    /\ Done(r) /\ response[r].status = 200
    /\ Len(Batch(r)) = 2 /\ Batch(r)[1].sensor_name = Batch(r)[2].sensor_name
    /\ Cardinality(SensorsCreatedBy(r)) = 1
    /\ Len(insertedReadings[r]) = 2

====
